---------------------------- MODULE Spec2Model ----------------------------
(***************************************************************************)
(* Model of the Datadog grok filter subsystem                              *)
(* (lib/datadog/grok/src/grok_filter.rs):                                  *)
(*   - GrokFilter::try_from(&Function): compiles a filter invocation       *)
(*     (name + optional argument list) into a GrokFilter or an error;      *)
(*   - apply_filter(&Value, &GrokFilter): applies a compiled filter to a   *)
(*     runtime value.                                                      *)
(* Rust `String`s are sequences of characters (code points), byte strings  *)
(* (`Bytes`) are sequences of bytes; the two are related by                *)
(* from_utf8_lossy / Utf8Encode exactly as in the program.  A Rust panic   *)
(* (index out of bounds, unwrap on None, expect on Err) is the result      *)
(* Panic: the call never returns and the process is gone.                  *)
(***************************************************************************)
EXTENDS Integers, Sequences, FiniteSets, TLC

VARIABLES
    filter,     \* Option<GrokFilter>: the compiled filter owned by the pattern
    f,          \* Option<Function>: the invocation handed to the last try_from
    res,        \* Option<Result<GrokFilter, GrokStaticError>> of that try_from
    value,      \* Option<Value>: the value handed to the last apply_filter
    out,        \* Option<Result<Value, GrokRuntimeError>> of that apply_filter
    evals       \* number of element-filter calls the last apply_filter made

vars == <<filter, f, res, value, out, evals>>

-----------------------------------------------------------------------------
(* Option and Result.                                                      *)

None == <<>>
Some(x) == <<x>>
IsSome(o) == o # <<>>
Unwrap(o) == o[1]

Ok(x) == [tag |-> "Ok", val |-> x]
Err(e) == [tag |-> "Err", err |-> e]
Panic == [tag |-> "Panic"]
IsOk(r) == r.tag = "Ok"
IsErr(r) == r.tag = "Err"

\* GrokStaticError (parse_grok_rules::Error) and GrokRuntimeError
InvalidFunctionArguments(name) == [e |-> "InvalidFunctionArguments", name |-> name]
UnknownFilter(name) == [e |-> "UnknownFilter", name |-> name]
FailedToApplyFilter(fname, vtext) ==
    [e |-> "FailedToApplyFilter", filter |-> fname, value |-> vtext]

-----------------------------------------------------------------------------
(* Characters, UTF-8.                                                      *)

REPLACEMENT == 65533     \* U+FFFD, char::REPLACEMENT_CHARACTER

\* char::len_utf8
Utf8Len(c) == IF c < 128 THEN 1 ELSE IF c < 2048 THEN 2 ELSE IF c < 65536 THEN 3 ELSE 4

\* the UTF-8 encoding of one character
EncodeChar(c) ==
    IF c < 128 THEN <<c>>
    ELSE IF c < 2048 THEN <<192 + (c \div 64), 128 + (c % 64)>>
    ELSE IF c < 65536 THEN
        <<224 + (c \div 4096), 128 + ((c \div 64) % 64), 128 + (c % 64)>>
    ELSE <<240 + (c \div 262144), 128 + ((c \div 4096) % 64),
           128 + ((c \div 64) % 64), 128 + (c % 64)>>

RECURSIVE Utf8Encode(_)
\* String::as_bytes / String -> Bytes
Utf8Encode(s) == IF s = <<>> THEN <<>> ELSE EncodeChar(Head(s)) \o Utf8Encode(Tail(s))

RECURSIVE StrLen(_)
\* String::len: the length in BYTES of the UTF-8 encoding
StrLen(s) == IF s = <<>> THEN 0 ELSE Utf8Len(Head(s)) + StrLen(Tail(s))

IsCont(b) == b >= 128 /\ b <= 191

\* the range the second byte of a sequence led by b must lie in
SecondLo(b) == IF b = 224 THEN 160 ELSE IF b = 240 THEN 144 ELSE 128
SecondHi(b) == IF b = 237 THEN 159 ELSE IF b = 244 THEN 143 ELSE 191

\* the width announced by a lead byte (0: the byte can lead nothing)
LeadWidth(b) ==
    IF b < 128 THEN 1
    ELSE IF b >= 194 /\ b <= 223 THEN 2
    ELSE IF b >= 224 /\ b <= 239 THEN 3
    ELSE IF b >= 240 /\ b <= 244 THEN 4
    ELSE 0

\* how many bytes of bs, from its head, form a valid prefix of one sequence
ValidPrefix(bs) ==
    LET b == bs[1]
        w == LeadWidth(b)
        n == Len(bs)
    IN  IF w <= 1 THEN 1
        ELSE IF n < 2 \/ bs[2] < SecondLo(b) \/ bs[2] > SecondHi(b) THEN 1
        ELSE IF w = 2 THEN 2
        ELSE IF n < 3 \/ ~IsCont(bs[3]) THEN 2
        ELSE IF w = 3 THEN 3
        ELSE IF n < 4 \/ ~IsCont(bs[4]) THEN 3
        ELSE 4

\* the character encoded by the first w bytes of bs (a complete sequence)
DecodeChar(bs, w) ==
    IF w = 1 THEN bs[1]
    ELSE IF w = 2 THEN (bs[1] - 192) * 64 + (bs[2] - 128)
    ELSE IF w = 3 THEN (bs[1] - 224) * 4096 + (bs[2] - 128) * 64 + (bs[3] - 128)
    ELSE (bs[1] - 240) * 262144 + (bs[2] - 128) * 4096
         + (bs[3] - 128) * 64 + (bs[4] - 128)

RECURSIVE from_utf8_lossy(_)
\* String::from_utf8_lossy: every maximal invalid part becomes one U+FFFD
from_utf8_lossy(bs) ==
    IF bs = <<>> THEN <<>>
    ELSE LET w == LeadWidth(bs[1])
             p == ValidPrefix(bs)
         IN  IF w >= 1 /\ p = w
             THEN <<DecodeChar(bs, w)>> \o from_utf8_lossy(SubSeq(bs, w + 1, Len(bs)))
             ELSE <<REPLACEMENT>> \o from_utf8_lossy(SubSeq(bs, p + 1, Len(bs)))

\* char::to_lowercase / to_uppercase on the characters of the model's alphabet
LowerChar(c) ==
    IF (c >= 65 /\ c <= 90) \/ (c >= 192 /\ c <= 222 /\ c # 215) THEN c + 32 ELSE c
UpperChar(c) ==
    IF (c >= 97 /\ c <= 122) \/ (c >= 224 /\ c <= 254 /\ c # 247) THEN c - 32 ELSE c
to_lowercase(s) == [i \in 1..Len(s) |-> LowerChar(s[i])]
to_uppercase(s) == [i \in 1..Len(s) |-> UpperChar(s[i])]

-----------------------------------------------------------------------------
(* 64-bit floats.  A float is NaN, an infinity (m is its sign) or the      *)
(* finite number m * 10^e, kept normalised (m not divisible by 10, zero    *)
(* as m = 0, e = 0).  Finite arithmetic is exact here; in the program a    *)
(* finite product may round, overflow to an infinity or underflow to zero, *)
(* none of which is NaN.                                                   *)

FNaN == [c |-> "nan", m |-> 0, e |-> 0]
FInf(s) == [c |-> "inf", m |-> s, e |-> 0]

RECURSIVE FFin(_, _)
FFin(m, e) ==
    IF m = 0 THEN [c |-> "fin", m |-> 0, e |-> 0]
    ELSE IF m % 10 = 0 THEN FFin(m \div 10, e + 1)
    ELSE [c |-> "fin", m |-> m, e |-> e]

Sgn(n) == IF n < 0 THEN -1 ELSE 1
Abs(n) == IF n < 0 THEN -n ELSE n
is_nan(x) == x.c = "nan"

\* f64 multiplication (IEEE 754): NaN is absorbing, 0 * inf = NaN
FMul(a, b) ==
    IF a.c = "nan" \/ b.c = "nan" THEN FNaN
    ELSE IF a.c = "inf" \/ b.c = "inf" THEN
        IF a.m = 0 \/ b.m = 0 THEN FNaN ELSE FInf(Sgn(a.m) * Sgn(b.m))
    ELSE FFin(a.m * b.m, a.e + b.e)

\* the largest integer of the model, standing for i64::MAX
IntMax == (2^30 - 1) * 2 + 1

\* `n as f64`
IntToF64(n) == FFin(n, 0)

RECURSIVE Pow10(_)
Pow10(k) == IF k = 0 THEN 1 ELSE 10 * Pow10(k - 1)

\* `x as i64`: truncation toward zero, saturating, NaN to 0
F64AsI64(x) ==
    IF x.c = "nan" THEN 0
    ELSE IF x.c = "inf" THEN x.m * IntMax
    ELSE IF x.e >= 0 THEN
        IF x.e > 9 \/ Abs(x.m) > IntMax \div Pow10(x.e)
        THEN Sgn(x.m) * IntMax
        ELSE x.m * Pow10(x.e)
    ELSE IF -x.e > 9 THEN 0
    ELSE Sgn(x.m) * (Abs(x.m) \div Pow10(-x.e))

\* NotNan::new(x).expect("NaN"): Panic stands for the failed expect
NotNanNew(x) == IF is_nan(x) THEN None ELSE Some(x)

-----------------------------------------------------------------------------
(* Text to number: str::parse::<i64> and str::parse::<f64>.                *)

PLUS == 43
MINUS == 45
DOT == 46
IsDigit(c) == c >= 48 /\ c <= 57
IsSign(c) == c = PLUS \/ c = MINUS

RECURSIVE DigitRun(_)
\* the length of the longest prefix of s made of digits
DigitRun(s) == IF s # <<>> /\ IsDigit(Head(s)) THEN 1 + DigitRun(Tail(s)) ELSE 0

RECURSIVE DigitsVal(_, _)
\* the number written by the digit string s, after the digits worth acc
DigitsVal(s, acc) ==
    IF s = <<>> THEN acc ELSE DigitsVal(Tail(s), acc * 10 + (Head(s) - 48))

Drop(s, n) == SubSeq(s, n + 1, Len(s))
Take(s, n) == SubSeq(s, 1, n)

\* i64::from_str: [+-]? digit+, nothing else; out of range is an error
parse_i64(s) ==
    LET signed == s # <<>> /\ IsSign(s[1])
        body == IF signed THEN Tail(s) ELSE s
        sign == IF signed /\ s[1] = MINUS THEN -1 ELSE 1
    IN  IF body = <<>> \/ DigitRun(body) # Len(body) \/ Len(body) > 9
        THEN None
        ELSE Some(sign * DigitsVal(body, 0))

W_inf == <<105, 110, 102>>
W_infinity == <<105, 110, 102, 105, 110, 105, 116, 121>>
W_nan == <<110, 97, 110>>

\* the exponent part of a decimal float: [eE] [+-]? digit+ up to the end
ParseExp(s) ==
    IF s = <<>> THEN Some(0)
    ELSE IF s[1] \notin {101, 69} THEN None
    ELSE LET t == Tail(s)
             signed == t # <<>> /\ IsSign(t[1])
             body == IF signed THEN Tail(t) ELSE t
             sign == IF signed /\ t[1] = MINUS THEN -1 ELSE 1
         IN  IF body = <<>> \/ DigitRun(body) # Len(body) \/ Len(body) > 2
             THEN None
             ELSE Some(sign * DigitsVal(body, 0))

\* f64::from_str: [+-]? ( inf | infinity | nan | digits [. digits] [exp] ),
\* the words in any case, at least one digit in the mantissa
parse_f64(s) ==
    LET signed == s # <<>> /\ IsSign(s[1])
        body == IF signed THEN Tail(s) ELSE s
        sign == IF signed /\ s[1] = MINUS THEN -1 ELSE 1
        word == to_lowercase(body)
        n1 == DigitRun(body)
        r1 == Drop(body, n1)
        dotted == r1 # <<>> /\ r1[1] = DOT
        n2 == IF dotted THEN DigitRun(Tail(r1)) ELSE 0
        r2 == IF dotted THEN Drop(Tail(r1), n2) ELSE r1
        ex == ParseExp(r2)
        digits == Take(body, n1) \o (IF dotted THEN Take(Tail(r1), n2) ELSE <<>>)
    IN  IF word = W_inf \/ word = W_infinity THEN Some(FInf(sign))
        ELSE IF word = W_nan THEN Some(FNaN)
        ELSE IF n1 + n2 = 0 \/ n1 + n2 > 9 \/ ~IsSome(ex) THEN None
        ELSE Some(FFin(sign * DigitsVal(digits, 0), Unwrap(ex) - n2))

-----------------------------------------------------------------------------
(* vrl_compiler::Value.                                                    *)

Value_Null == [kind |-> "Null"]
Value_Boolean(t) == [kind |-> "Boolean", t |-> t]
Value_Integer(n) == [kind |-> "Integer", i |-> n]
Value_Float(x) == [kind |-> "Float", x |-> x]
Value_Bytes(bs) == [kind |-> "Bytes", b |-> bs]
Value_Array(vs) == [kind |-> "Array", a |-> vs]
Value_Object(m) == [kind |-> "Object", o |-> m]

\* Value::from(f64): a Float holds a NotNan, NaN cannot be stored
ValueFromF64(x) == IF is_nan(x) THEN Panic ELSE Ok(Value_Float(x))

RECURSIVE NatToChars(_)
NatToChars(n) ==
    IF n < 10 THEN <<48 + n>> ELSE NatToChars(n \div 10) \o <<48 + (n % 10)>>

IntToChars(n) == IF n < 0 THEN <<MINUS>> \o NatToChars(-n) ELSE NatToChars(n)

RECURSIVE Zeros(_)
Zeros(k) == IF k <= 0 THEN <<>> ELSE <<48>> \o Zeros(k - 1)

\* the text of a float: inf, -inf, or decimal digits with a point where needed
FloatToChars(x) ==
    IF x.c = "nan" THEN <<78, 97, 78>>
    ELSE IF x.c = "inf" THEN (IF x.m < 0 THEN <<MINUS>> ELSE <<>>) \o W_inf
    ELSE IF x.e >= 0 THEN IntToChars(x.m) \o Zeros(x.e)
    ELSE LET ds == NatToChars(Abs(x.m))
             pad == Zeros(1 - x.e - Len(ds)) \o ds
             n == Len(pad)
         IN  (IF x.m < 0 THEN <<MINUS>> ELSE <<>>)
             \o SubSeq(pad, 1, n + x.e) \o <<DOT>> \o SubSeq(pad, n + x.e + 1, n)

RECURSIVE to_string(_)
\* Value::to_string: the textual rendering carried by a runtime failure
to_string(v) ==
    CASE v.kind = "Null" -> <<110, 117, 108, 108>>
      [] v.kind = "Boolean" ->
            IF v.t THEN <<116, 114, 117, 101>> ELSE <<102, 97, 108, 115, 101>>
      [] v.kind = "Integer" -> IntToChars(v.i)
      [] v.kind = "Float" -> FloatToChars(v.x)
      [] v.kind = "Bytes" -> <<34>> \o from_utf8_lossy(v.b) \o <<34>>
      [] v.kind = "Array" ->
            LET join[i \in 0..Len(v.a)] ==
                    IF i = 0 THEN <<>>
                    ELSE join[i - 1] \o (IF i = 1 THEN <<>> ELSE <<44, 32>>)
                         \o to_string(v.a[i])
            IN  <<91>> \o join[Len(v.a)] \o <<93>>
      [] v.kind = "Object" -> <<123, 125>>

\* serde_json::from_slice followed by Value::from, on the documents the
\* model's texts can spell: null, true, false and numbers.  The decoder reads
\* the raw bytes; anything that is not valid UTF-8 is malformed.
JsonDecode(bs) ==
    LET s == from_utf8_lossy(bs)
        neg == s # <<>> /\ s[1] = MINUS
        body == IF neg THEN Tail(s) ELSE s
        n1 == DigitRun(body)
        plain == n1 >= 1 /\ (n1 = 1 \/ body[1] # 48)
        isInt == plain /\ n1 = Len(body) /\ n1 <= 9
        fl == parse_f64(s)
        r1 == Drop(body, n1)
        isNum == plain /\ IsSome(fl)
                 /\ (r1 = <<>> \/ r1[1] # DOT \/ DigitRun(Tail(r1)) >= 1)
    IN  IF Utf8Encode(s) # bs THEN None
        ELSE IF s = <<110, 117, 108, 108>> THEN Some(Value_Null)
        ELSE IF s = <<116, 114, 117, 101>> THEN Some(Value_Boolean(TRUE))
        ELSE IF s = <<102, 97, 108, 115, 101>> THEN Some(Value_Boolean(FALSE))
        ELSE IF isInt THEN Some(Value_Integer((IF neg THEN -1 ELSE 1) * DigitsVal(body, 0)))
        ELSE IF isNum THEN Some(Value_Float(Unwrap(fl)))
        ELSE None

-----------------------------------------------------------------------------
(* crate::filters::array::parse, the delimited-array tokenizer.            *)

IsPrefix(d, s) == Len(d) <= Len(s) /\ SubSeq(s, 1, Len(d)) = d

RECURSIVE Split(_, _, _)
\* the pieces of s between the occurrences of the delimiter d (not empty);
\* cur is the piece being read
Split(s, d, cur) ==
    IF s = <<>> THEN <<cur>>
    ELSE IF IsPrefix(d, s) THEN <<cur>> \o Split(Drop(s, Len(d)), d, <<>>)
    ELSE Split(Tail(s), d, Append(cur, Head(s)))

COMMA == 44

\* array::parse(text, brackets, delimiter): given brackets must wrap the text
\* and are stripped; an absent delimiter is the tokenizer's default, a comma;
\* each token is a Bytes value
array_parse(text, brackets, delimiter) ==
    LET wrapped == IsSome(brackets)
        bad == wrapped /\ (Len(text) < 2 \/ text[1] # Unwrap(brackets)[1]
                           \/ text[Len(text)] # Unwrap(brackets)[2])
        inner == IF wrapped /\ ~bad THEN SubSeq(text, 2, Len(text) - 1) ELSE text
        d == IF IsSome(delimiter) THEN Unwrap(delimiter) ELSE <<COMMA>>
        toks == IF inner = <<>> THEN <<>>
                ELSE IF d = <<>> THEN <<inner>>
                ELSE Split(inner, d, <<>>)
    IN  IF bad THEN None
        ELSE Some([i \in 1..Len(toks) |-> Value_Bytes(Utf8Encode(toks[i]))])

-----------------------------------------------------------------------------
(* GrokFilter, Function and FunctionArgument.                              *)

GrokFilter_Integer == [kind |-> "Integer"]
GrokFilter_IntegerExt == [kind |-> "IntegerExt"]
GrokFilter_Number == [kind |-> "Number"]
GrokFilter_NumberExt == [kind |-> "NumberExt"]
GrokFilter_Lowercase == [kind |-> "Lowercase"]
GrokFilter_Uppercase == [kind |-> "Uppercase"]
GrokFilter_Json == [kind |-> "Json"]
GrokFilter_NullIf(s) == [kind |-> "NullIf", null_value |-> s]
GrokFilter_Scale(k) == [kind |-> "Scale", scale_factor |-> k]
GrokFilter_Array(b, d, vf) ==
    [kind |-> "Array", brackets |-> b, delimiter |-> d, value_filter |-> vf]

\* #[derive(Display)]: a filter displays as the name of its variant
Display(flt) == flt.kind

\* ast::Function { name, args: Option<Vec<FunctionArgument>> }
Function(name, args) == [name |-> name, args |-> args]
\* FunctionArgument::Arg(Value) and FunctionArgument::Function(Function)
Arg(v) == [t |-> "Arg", v |-> v]
Nested(g) == [t |-> "Function", g |-> g]

IsBytesArg(a) == a.t = "Arg" /\ a.v.kind = "Bytes"
IsFunctionArg(a) == a.t = "Function"

-----------------------------------------------------------------------------
(* GrokFilter::try_from.                                                   *)

\* the "scale" arm
ScaleArm(fn) ==
    IF IsSome(fn.args) /\ Unwrap(fn.args) # <<>> THEN
        LET a == Unwrap(fn.args)[1] IN
        IF a.t = "Arg" /\ a.v.kind = "Integer"
            THEN Ok(GrokFilter_Scale(IntToF64(a.v.i)))
        ELSE IF a.t = "Arg" /\ a.v.kind = "Float"
            THEN Ok(GrokFilter_Scale(a.v.x))
        ELSE Err(InvalidFunctionArguments(fn.name))
    ELSE Err(InvalidFunctionArguments(fn.name))

\* NullIfArm with a check that there is exactly one argument
NullIfArm_ExactlyOne(fn) ==
    IF ~IsSome(fn.args) \/ Len(Unwrap(fn.args)) # 1
        THEN Err(InvalidFunctionArguments(fn.name))
    ELSE IF IsBytesArg(Unwrap(fn.args)[1])
        THEN Ok(GrokFilter_NullIf(from_utf8_lossy(Unwrap(fn.args)[1].v.b)))
    ELSE Err(InvalidFunctionArguments(fn.name))

\* the "nullIf" arm: args[0] is indexed without a look at the length
NullIfArm(fn) ==
    IF ~IsSome(fn.args) THEN Err(InvalidFunctionArguments(fn.name))
    ELSE LET args == Unwrap(fn.args) IN
         IF Len(args) = 0 THEN Panic
         ELSE IF IsBytesArg(args[1])
             THEN Ok(GrokFilter_NullIf(from_utf8_lossy(args[1].v.b)))
         ELSE Err(InvalidFunctionArguments(fn.name))

\* what the match on the arguments of "array" binds: the bracket string,
\* the delimiter string and the nested invocation, or no arm matches
NoMatch == [ok |-> FALSE, brackets |-> None, delimiter |-> None, nested |-> None]
Bound(b, d, g) == [ok |-> TRUE, brackets |-> b, delimiter |-> d, nested |-> g]
ArgString(a) == Some(from_utf8_lossy(a.v.b))

\* args_len == 1
ArrayMatch1(args) ==
    IF IsBytesArg(args[1]) THEN Bound(None, ArgString(args[1]), None)
    ELSE IF IsFunctionArg(args[1]) THEN Bound(None, None, Some(args[1].g))
    ELSE NoMatch

\* ArrayMatch2 with the two strings of its first arm bound the other way round
ArrayMatch2_Swapped(args) ==
    IF IsBytesArg(args[1]) /\ IsBytesArg(args[2])
        THEN Bound(ArgString(args[2]), ArgString(args[1]), None)
    ELSE IF IsBytesArg(args[1]) /\ IsFunctionArg(args[2])
        THEN Bound(None, ArgString(args[1]), Some(args[2].g))
    ELSE NoMatch

\* args_len == 2
ArrayMatch2(args) ==
    IF IsBytesArg(args[1]) /\ IsBytesArg(args[2])
        THEN Bound(ArgString(args[1]), ArgString(args[2]), None)
    ELSE IF IsBytesArg(args[1]) /\ IsFunctionArg(args[2])
        THEN Bound(None, ArgString(args[1]), Some(args[2].g))
    ELSE NoMatch

\* args_len == 3
ArrayMatch3(args) ==
    IF IsBytesArg(args[1]) /\ IsBytesArg(args[2]) /\ IsFunctionArg(args[3])
        THEN Bound(ArgString(args[1]), ArgString(args[2]), Some(args[3].g))
    ELSE NoMatch

\* the "array" arm, the chain of tests on args_len
ArrayMatch(args) ==
    IF Len(args) = 1 THEN ArrayMatch1(args)
    ELSE IF Len(args) = 2 THEN ArrayMatch2(args)
    ELSE IF Len(args) = 3 THEN ArrayMatch3(args)
    ELSE IF Len(args) > 3 THEN NoMatch
    ELSE Bound(None, None, None)

\* the "array" arm, the decoding of the bracket string: String::len counts
\* bytes, chars() yields characters, unwrap panics when there is none left
BracketsDecode(brackets, name) ==
    IF ~IsSome(brackets) THEN Ok(None)
    ELSE LET b == Unwrap(brackets) IN
         IF StrLen(b) = 1 THEN Ok(Some(<<b[1], b[1]>>))
         ELSE IF StrLen(b) = 2 THEN
             IF Len(b) >= 2 THEN Ok(Some(<<b[1], b[2]>>)) ELSE Panic
         ELSE Err(InvalidFunctionArguments(name))

RECURSIVE try_from(_)

\* ArrayArm with the brackets decoded before the nested invocation is compiled
ArrayArm_DecodeFirst(fn) ==
    LET args == IF IsSome(fn.args) THEN Unwrap(fn.args) ELSE <<>>
        m == ArrayMatch(args)
        c == try_from(Unwrap(m.nested))
        value_filter == IF ~IsSome(m.nested) THEN Ok(None)
                        ELSE IF IsOk(c) THEN Ok(Some(c.val)) ELSE c
        b == BracketsDecode(m.brackets, fn.name)
    IN  IF ~m.ok THEN Err(InvalidFunctionArguments(fn.name))
        ELSE IF ~IsOk(b) THEN b
        ELSE IF ~IsOk(value_filter) THEN value_filter
        ELSE Ok(GrokFilter_Array(b.val, m.delimiter, value_filter.val))

\* the "array" arm: match, compile the nested invocation (`?` returns its
\* error, a panic unwinds), then decode the brackets
ArrayArm(fn) ==
    LET args == IF IsSome(fn.args) THEN Unwrap(fn.args) ELSE <<>>
        m == ArrayMatch(args)
        c == try_from(Unwrap(m.nested))
        value_filter == IF ~IsSome(m.nested) THEN Ok(None)
                        ELSE IF IsOk(c) THEN Ok(Some(c.val)) ELSE c
        b == BracketsDecode(m.brackets, fn.name)
    IN  IF ~m.ok THEN Err(InvalidFunctionArguments(fn.name))
        ELSE IF ~IsOk(value_filter) THEN value_filter
        ELSE IF ~IsOk(b) THEN b
        ELSE Ok(GrokFilter_Array(b.val, m.delimiter, value_filter.val))

\* UnknownArm reporting the name as one with invalid arguments
UnknownArm_Invalid(fn) == Err(InvalidFunctionArguments(fn.name))

\* the fall-through arm
UnknownArm(fn) == Err(UnknownFilter(fn.name))

try_from(fn) ==
    CASE fn.name = "scale" -> ScaleArm(fn)
      [] fn.name = "integer" -> Ok(GrokFilter_Integer)
      [] fn.name = "integerExt" -> Ok(GrokFilter_IntegerExt)
      [] fn.name = "number" -> Ok(GrokFilter_Number)
      [] fn.name = "numberExt" -> Ok(GrokFilter_NumberExt)
      [] fn.name = "lowercase" -> Ok(GrokFilter_Lowercase)
      [] fn.name = "uppercase" -> Ok(GrokFilter_Uppercase)
      [] fn.name = "json" -> Ok(GrokFilter_Json)
      [] fn.name = "nullIf" -> NullIfArm(fn)
      [] fn.name = "array" -> ArrayArm(fn)
      [] OTHER -> UnknownArm(fn)

-----------------------------------------------------------------------------
(* apply_filter.  GrokFilter::Date is built outside this file and its arm  *)
(* only hands the value to the date matcher; it is not modelled.           *)

\* the failure every arm builds: the filter's name and the value's text
Failed(val, flt) == Err(FailedToApplyFilter(Display(flt), to_string(val)))

\* Mismatch letting the value through unchanged
Mismatch_PassThrough(val, flt) == Ok(val)

\* the arm taken when the value's kind is not one the filter reads
Mismatch(val, flt) == Failed(val, flt)

IntegerApply(val, flt) ==
    LET r == parse_i64(from_utf8_lossy(val.b))
    IN  IF IsSome(r) THEN Ok(Value_Integer(Unwrap(r))) ELSE Failed(val, flt)

IntegerExtApply(val, flt) ==
    LET r == parse_f64(from_utf8_lossy(val.b))
    IN  IF IsSome(r) THEN Ok(Value_Integer(F64AsI64(Unwrap(r)))) ELSE Failed(val, flt)

NumberApply(val, flt) ==
    LET r == parse_f64(from_utf8_lossy(val.b))
    IN  IF IsSome(r) THEN ValueFromF64(Unwrap(r)) ELSE Failed(val, flt)

\* NotNan::new(product).expect("NaN")
ScaleProduct(x, scale_factor) ==
    LET p == NotNanNew(FMul(x, scale_factor))
    IN  IF IsSome(p) THEN Ok(Value_Float(Unwrap(p))) ELSE Panic

ScaleApply(val, flt) ==
    CASE val.kind = "Integer" -> ScaleProduct(IntToF64(val.i), flt.scale_factor)
      [] val.kind = "Float" -> ScaleProduct(val.x, flt.scale_factor)
      [] val.kind = "Bytes" ->
            LET r == parse_f64(from_utf8_lossy(val.b))
            IN  IF IsSome(r) THEN ScaleProduct(Unwrap(r), flt.scale_factor)
                ELSE Failed(val, flt)
      [] OTHER -> Mismatch(val, flt)

JsonApply(val, flt) ==
    LET r == JsonDecode(val.b)
    IN  IF IsSome(r) THEN Ok(Unwrap(r)) ELSE Failed(val, flt)

\* NullIfApply returning the decoded text of a value that does not match
NullIfApply_Decoded(val, flt) ==
    IF from_utf8_lossy(val.b) = flt.null_value THEN Ok(Value_Null)
    ELSE Ok(Value_Bytes(Utf8Encode(from_utf8_lossy(val.b))))

\* the NullIf arm: the lossily decoded text is compared with the sentinel
NullIfApply(val, flt) ==
    IF from_utf8_lossy(val.b) = flt.null_value THEN Ok(Value_Null) ELSE Ok(val)

\* what the arms other than Array return for a value and a filter
ScalarApply(val, flt) ==
    IF flt.kind = "Scale" THEN ScaleApply(val, flt)
    ELSE IF val.kind # "Bytes" THEN Mismatch(val, flt)
    ELSE CASE flt.kind = "Integer" -> IntegerApply(val, flt)
           [] flt.kind = "IntegerExt" -> IntegerExtApply(val, flt)
           [] flt.kind \in {"Number", "NumberExt"} -> NumberApply(val, flt)
           [] flt.kind = "Lowercase" ->
                 Ok(Value_Bytes(Utf8Encode(to_lowercase(from_utf8_lossy(val.b)))))
           [] flt.kind = "Uppercase" ->
                 Ok(Value_Bytes(Utf8Encode(to_uppercase(from_utf8_lossy(val.b)))))
           [] flt.kind = "Json" -> JsonApply(val, flt)
           [] flt.kind = "NullIf" -> NullIfApply(val, flt)

\* one step of collect::<Result<Vec<Value>, _>>(): p is the state after the
\* elements before, r the result of the call on this element; once a call
\* has not returned Ok no further call is made
CollectStep(p, r) ==
    IF IsOk(r) THEN [res |-> Ok(Append(p.res.val, r.val)), n |-> p.n + 1]
    ELSE [res |-> r, n |-> p.n + 1]

RECURSIVE apply_traced(_, _)
\* apply_filter(val, flt), with n, the number of calls of the element filter
\* it makes.  In the Array arm
\*   values.iter().map(|v| apply_filter(v, value_filter)).collect()
\* takes the tokens in order; collect[i] is its state after i tokens.
apply_traced(val, flt) ==
    IF flt.kind # "Array" THEN [res |-> ScalarApply(val, flt), n |-> 0]
    ELSE IF val.kind # "Bytes" THEN [res |-> Mismatch(val, flt), n |-> 0]
    ELSE LET values == array_parse(from_utf8_lossy(val.b), flt.brackets, flt.delimiter)
         IN  IF ~IsSome(values) THEN [res |-> Failed(val, flt), n |-> 0]
             ELSE IF ~IsSome(flt.value_filter)
                 THEN [res |-> Ok(Value_Array(Unwrap(values))), n |-> 0]
             ELSE LET toks == Unwrap(values)
                      collect[i \in 0..Len(toks)] ==
                          IF i = 0 THEN [res |-> Ok(<<>>), n |-> 0]
                          ELSE IF ~IsOk(collect[i - 1].res) THEN collect[i - 1]
                          ELSE CollectStep(collect[i - 1],
                                   apply_traced(toks[i], Unwrap(flt.value_filter)).res)
                      c == collect[Len(toks)]
                  IN  [res |-> IF IsOk(c.res) THEN Ok(Value_Array(c.res.val)) ELSE c.res,
                       n |-> c.n]

apply_filter(val, flt) == apply_traced(val, flt).res

\* the number of element-filter calls apply_filter(val, flt) makes
ElementCalls(val, flt) == apply_traced(val, flt).n

-----------------------------------------------------------------------------
(* The inputs of the model.                                                *)

MaxArgs == 4        \* the longest argument list
MaxDepth == 2       \* how deep the invocations nested in an argument go
ShapeLen == 3       \* the longest argument list try_from reads arguments of

\* the ten filter names, and names that are none of them
FilterNames ==
    {"integer", "integerExt", "number", "numberExt", "lowercase", "uppercase",
     "json", "scale", "nullIf", "array"}
OtherNames == {"date", "Array", "foo"}
Names == FilterNames \cup OtherNames

\* byte strings written in a pattern: "" "," "()" "é" (one character, two
\* bytes) and the invalid byte 0xFF
PatternBytes == { <<>>, <<44>>, <<40, 41>>, <<195, 169>>, <<255>> }

Literals ==
    {Arg(Value_Bytes(b)) : b \in PatternBytes}
    \cup {Arg(Value_Integer(2)), Arg(Value_Float(FInf(1)))}

\* invocations without nested invocations, used as nested arguments
Leaves ==
    {Function("integer", None), Function("scale", Some(<<Arg(Value_Integer(2))>>)),
     Function("foo", None), Function("nullIf", Some(<<>>))}

RECURSIVE NestedFns(_)
\* the invocations nested at most d deep that an argument may hold
NestedFns(d) ==
    IF d = 0 THEN Leaves
    ELSE Leaves \cup {Function("array", Some(<<Nested(g)>>)) : g \in NestedFns(d - 1)}

Arguments == Literals \cup {Nested(g) : g \in NestedFns(MaxDepth - 1)}

\* in the lists longer than ShapeLen, whose arguments past the first
\* try_from never reads: one argument of each kind
LongArguments ==
    {Arg(Value_Bytes(<<44>>)), Arg(Value_Float(FInf(1))), Nested(Function("integer", None))}

ArgLists ==
    UNION {[1..n -> Arguments] : n \in 0..ShapeLen}
    \cup UNION {[1..n -> LongArguments] : n \in (ShapeLen + 1)..MaxArgs}

Functions ==
    {Function(name, None) : name \in Names}
    \cup {Function(name, Some(args)) : name \in Names, args \in ArgLists}

\* the runtime values
Texts ==
    { <<>>, <<44>>, <<53>>, <<49, 44, 50>>, <<49, 44, 120, 44, 121>>,
      <<120, 44, 78, 97, 78>>, <<78, 97, 78, 44, 120>>, <<105, 110, 102>>,
      <<40, 49, 44, 50, 41>>, <<49, 101, 51>>, <<65, 98>>,
      <<195, 169>>, <<254>>, <<254, 44>>, <<239, 191, 189>> }

Values ==
    {Value_Bytes(b) : b \in Texts}
    \cup {Value_Null, Value_Boolean(TRUE), Value_Integer(0), Value_Integer(5),
          Value_Float(FInf(1)), Value_Float(FFin(15, -1)),
          Value_Array(<<Value_Bytes(<<53>>)>>), Value_Object(<<>>)}

-----------------------------------------------------------------------------
(* The state machine: a pattern compiles its filter invocation once, at    *)
(* build time; the compiled filter is then applied to the values the       *)
(* matches yield.  A panic ends the process.                               *)

Init ==
    /\ filter = None
    /\ f = None
    /\ res = None
    /\ value = None
    /\ out = None
    /\ evals = 0

\* GrokFilter::try_from(fn) at pattern build, fn any invocation of Functions
Compile ==
    /\ f = None /\ filter = None
    /\ \E fn \in Functions :
        /\ f' = Some(fn)
        /\ res' = Some(try_from(fn))
        /\ filter' = IF IsOk(try_from(fn)) THEN Some(try_from(fn).val) ELSE None
    /\ UNCHANGED <<value, out, evals>>

\* apply_filter(v, filter) on a value v of a matched line; the invocation and
\* the Result of try_from do not outlive the build
Apply ==
    /\ IsSome(filter)
    /\ IsSome(out) => Unwrap(out) # Panic
    /\ \E v \in Values :
        /\ value' = Some(v)
        /\ out' = Some(apply_filter(v, Unwrap(filter)))
        /\ evals' = ElementCalls(v, Unwrap(filter))
    /\ f' = None
    /\ res' = None
    /\ UNCHANGED filter

Next == Compile \/ Apply

Spec == Init /\ [][Next]_vars

-----------------------------------------------------------------------------
(* The claims.  Compiled: try_from has returned (or panicked) for the      *)
(* invocation fn with result r.  Applied: apply_filter has returned (or    *)
(* panicked) for the value val and the compiled filter flt with result o.  *)

Compiled == IsSome(f)
fn == Unwrap(f)
r == Unwrap(res)
args == IF IsSome(fn.args) THEN Unwrap(fn.args) ELSE <<>>

Applied == IsSome(value)
val == Unwrap(value)
flt == Unwrap(filter)
o == Unwrap(out)

InvalidArguments(name) == Err(InvalidFunctionArguments(name))

\* C1: compiling nullIf with an absent or an empty argument list returns
\* InvalidArguments("nullIf"); it never faults.
C1_NullIfWithoutArguments ==
    (Compiled /\ fn.name = "nullIf" /\ args = <<>>) => r = InvalidArguments("nullIf")

\* C2, as stated: compiling nullIf succeeds, with NullIf(sentinel), exactly
\* when there is exactly one argument and it is a byte-string literal; the
\* lists of two or more arguments and those led by another literal or by a
\* nested invocation return InvalidArguments("nullIf").
C2_NullIfExactlyOneArgument ==
    (Compiled /\ fn.name = "nullIf") =>
        /\ IsOk(r) <=> (Len(args) = 1 /\ IsBytesArg(args[1]))
        /\ IsOk(r) => r.val = GrokFilter_NullIf(from_utf8_lossy(args[1].v.b))
        /\ (Len(args) >= 2 \/ (Len(args) = 1 /\ ~IsBytesArg(args[1])))
               => r = InvalidArguments("nullIf")

\* C2, amended: compiling nullIf succeeds, with NullIf(sentinel), exactly
\* when the argument list is present, not empty, and its FIRST argument is a
\* byte-string literal (the arguments after the first are ignored); an absent
\* list and a list led by anything else return InvalidArguments("nullIf").
C2_NullIfFirstArgument ==
    (Compiled /\ fn.name = "nullIf") =>
        /\ IsOk(r) <=> (Len(args) >= 1 /\ IsBytesArg(args[1]))
        /\ IsOk(r) => r.val = GrokFilter_NullIf(from_utf8_lossy(args[1].v.b))
        /\ (~IsSome(fn.args) \/ (Len(args) >= 1 /\ ~IsBytesArg(args[1])))
               => r = InvalidArguments("nullIf")

\* nullIf compiled from two byte-string literals
C2_Witness ==
    /\ Compiled /\ fn.name = "nullIf" /\ Len(args) = 2
    /\ IsBytesArg(args[1]) /\ IsBytesArg(args[2])
    /\ r = Ok(GrokFilter_NullIf(<<44>>))

\* the shape table of `array`: the positions of the bracket literal, the
\* delimiter literal and the nested invocation in an accepted list (0: none)
Shape(b, d, g) == [ok |-> TRUE, b |-> b, d |-> d, g |-> g]
NoShape == [ok |-> FALSE, b |-> 0, d |-> 0, g |-> 0]
KindsOf(as) ==
    [i \in 1..Len(as) |->
        IF IsBytesArg(as[i]) THEN "bytes"
        ELSE IF IsFunctionArg(as[i]) THEN "nested" ELSE "other"]
ShapeTable(as) ==
    LET k == KindsOf(as) IN
    CASE k = <<>> -> Shape(0, 0, 0)
      [] k = <<"bytes">> -> Shape(0, 1, 0)
      [] k = <<"nested">> -> Shape(0, 0, 1)
      [] k = <<"bytes", "bytes">> -> Shape(1, 2, 0)
      [] k = <<"bytes", "nested">> -> Shape(0, 1, 2)
      [] k = <<"bytes", "bytes", "nested">> -> Shape(1, 2, 3)
      [] OTHER -> NoShape

\* the string of the literal at position i, none for position 0
StringAt(as, i) == IF i = 0 THEN None ELSE Some(from_utf8_lossy(as[i].v.b))
\* the pair a bracket string of one or two characters stands for
PairOf(s) == IF Len(s) = 1 THEN <<s[1], s[1]>> ELSE <<s[1], s[2]>>
\* one or two characters, each of one byte
PlainBrackets(s) == Len(s) \in {1, 2} /\ \A i \in 1..Len(s) : s[i] < 128

C4_BracketDecoding ==
    (Compiled /\ fn.name = "array" /\ ShapeTable(args).ok /\ ShapeTable(args).b # 0
     /\ (ShapeTable(args).g = 0 \/ IsOk(try_from(args[ShapeTable(args).g].g)))) =>
        LET s == from_utf8_lossy(args[1].v.b) IN
        \/ StrLen(s) = 1 /\ IsOk(r) /\ r.val.brackets = Some(<<s[1], s[1]>>)
        \/ StrLen(s) = 2 /\ IsOk(r) /\ Len(s) = 2 /\ r.val.brackets = Some(<<s[1], s[2]>>)
        \/ StrLen(s) \notin {1, 2} /\ r = InvalidArguments("array")

\* C9: a name that is none of the ten filter names compiles to
\* UnknownFilter(name), whatever the arguments; a filter name never does.
C9_UnknownFilter ==
    Compiled =>
        /\ fn.name \notin FilterNames => r = Err(UnknownFilter(fn.name))
        /\ fn.name \in FilterNames => r # Err(UnknownFilter(fn.name))

\* `date` with three arguments is unknown
C9_Witness ==
    /\ Compiled /\ fn.name = "date" /\ Len(args) = 3
    /\ r = Err(UnknownFilter("date"))

TokensOf(v, a) == array_parse(from_utf8_lossy(v.b), a.brackets, a.delimiter)

\* C5: Array with an element filter, applied to a byte-string whose
\* tokenization succeeds with tokens t1..tn: if every apply(ti, elementFilter)
\* succeeds the result is the Array of those results in token order;
\* otherwise the application fails with exactly the failure of the
\* lowest-index failing token, and no element after it is evaluated.
C5_ArrayFailFast ==
    (Applied /\ flt.kind = "Array" /\ IsSome(flt.value_filter)
     /\ val.kind = "Bytes" /\ IsSome(TokensOf(val, flt))) =>
        LET toks == Unwrap(TokensOf(val, flt))
            rs == [i \in 1..Len(toks) |-> apply_filter(toks[i], Unwrap(flt.value_filter))]
        IN  IF \A i \in 1..Len(toks) : IsOk(rs[i])
            THEN o = Ok(Value_Array([i \in 1..Len(toks) |-> rs[i].val]))
            ELSE /\ IsErr(o)
                 /\ \E k \in 1..Len(toks) :
                        /\ IsErr(rs[k])
                        /\ \A j \in 1..(k - 1) : ~IsErr(rs[j])
                        /\ o = rs[k]
                        /\ evals = k

\* C6: Scale(k), for every k compile produces, applied to any value returns
\* a Float or a FailedToApplyFilter failure; the NaN violation is unreachable.
C6_ScaleNeverNaN ==
    (Applied /\ flt.kind = "Scale") =>
        \/ IsOk(o) /\ o.val.kind = "Float"
        \/ IsErr(o) /\ o.err.e = "FailedToApplyFilter"

\* C7, as stated: NullIf(sentinel) applied to a byte-string returns Null
\* exactly when the value is exactly equal to the sentinel, byte for byte,
\* and otherwise the input itself; applied to anything else it fails.
C7_NullIfExactEquality ==
    (Applied /\ flt.kind = "NullIf") =>
        IF val.kind = "Bytes"
        THEN /\ (o = Ok(Value_Null)) <=> (val.b = Utf8Encode(flt.null_value))
             /\ (val.b # Utf8Encode(flt.null_value)) => o = Ok(val)
        ELSE IsErr(o)

\* C7, amended: NullIf(sentinel) applied to a byte-string returns Null
\* exactly when the lossy UTF-8 decoding of the value equals the sentinel
\* (for a value that is valid UTF-8: when its bytes are the sentinel's), and
\* otherwise the input itself, same kind and same bytes, the invalid ones
\* included; applied to anything else it fails.  Applying NullIf to the
\* result of a non-matching application returns the same value again.
C7_NullIfLossyEquality ==
    (Applied /\ flt.kind = "NullIf") =>
        IF val.kind = "Bytes"
        THEN /\ (o = Ok(Value_Null)) <=> (from_utf8_lossy(val.b) = flt.null_value)
             /\ (from_utf8_lossy(val.b) # flt.null_value) =>
                    (o = Ok(val) /\ apply_filter(o.val, flt) = o)
             /\ (Utf8Encode(from_utf8_lossy(val.b)) = val.b) =>
                    ((o = Ok(Value_Null)) <=> (val.b = Utf8Encode(flt.null_value)))
        ELSE o = Err(FailedToApplyFilter("NullIf", to_string(val)))

\* NullIf(",") let the bytes 0xFE 0x2C, which are not UTF-8, through unchanged
C7_Witness ==
    /\ Applied /\ flt = GrokFilter_NullIf(<<44>>)
    /\ val = Value_Bytes(<<254, 44>>)
    /\ o = Ok(Value_Bytes(<<254, 44>>))

\* the kinds of value a filter reads
Accepts(a, v) ==
    IF a.kind = "Scale" THEN v.kind \in {"Integer", "Float", "Bytes"}
    ELSE v.kind = "Bytes"

\* the display names of the filters
DisplayNames ==
    {"Integer", "IntegerExt", "Number", "NumberExt", "Lowercase", "Uppercase",
     "Json", "NullIf", "Scale", "Array"}

\* C8: a filter applied to a value of a kind it does not read returns
\* FailedToApplyFilter carrying the filter's display name and the value's
\* text; never a value, never a fault.
C8_KindMismatch ==
    (Applied /\ ~Accepts(flt, val)) =>
        /\ o = Err(FailedToApplyFilter(flt.kind, to_string(val)))
        /\ o.err.filter \in DisplayNames
        /\ o.err.value # <<>>

\* an Array filter applied to the Integer 5 failed as ("Array", "5")
C8_Witness ==
    /\ Applied /\ flt.kind = "Array" /\ val = Value_Integer(5)
    /\ o = Err(FailedToApplyFilter("Array", <<53>>))

=============================================================================
